---- MODULE Spec2Model ----
(***************************************************************************)
(* Model of rust-vim-flavor: the VimFlavor manifest parser (src/parse.rs), *)
(* the command driver (src/main.rs) and the synchronizer it calls.         *)
(*                                                                         *)
(* Bytes are one-character strings; a buffer is a sequence of bytes.       *)
(* Indices into a buffer are 1-based here; the byte at Rust index n is     *)
(* buf[n + 1].                                                             *)
(***************************************************************************)
EXTENDS Integers, Sequences, FiniteSets, TLC

(***************************************************************************)
(* Bounds                                                                  *)
(***************************************************************************)
\* longest manifest, counted in fragments
MaxItems == 3

(***************************************************************************)
(* Bytes and manifests                                                     *)
(***************************************************************************)
\* Option<u8>::None
None == "None"

NL == "\n"
QUOTE == "'"

\* the ASCII letters that occur in the manifests of the model
Letters == {"a", "b", "c", "d", "e", "f", "g", "h", "l", "n", "o", "p", "r",
            "u", "v", "x"}

is_ascii_alphabetic(b) == b \in Letters

KwFlavor == <<"f", "l", "a", "v", "o", "r">>
KwGroup == <<"g", "r", "o", "u", "p">>
KwBranch == <<"b", "r", "a", "n", "c", "h">>

\* the text fragments manifests are put together from
Items == {"cmt_empty", "cmt_text", "fl_a", "fl_ab", "attr_d", "attr_e", "nl",
          "kw_flavor", "comma", "attr_cb", "attr_cbc", "kw_branch", "colon",
          "str", "quote", "ill", "ident", "kw_group", "hash"}

ItemBytes(i) ==
  CASE i = "cmt_empty" -> <<"#", NL>>
    [] i = "cmt_text" -> <<"#", " ", "x", NL>>
    [] i = "fl_a" -> KwFlavor \o <<" ", QUOTE, "a", QUOTE>>
    [] i = "fl_ab" -> KwFlavor \o <<" ", QUOTE, "a", "/", "b", QUOTE>>
    [] i = "attr_d" -> <<",", " ">> \o KwBranch \o <<":", " ", QUOTE, "d", QUOTE>>
    [] i = "attr_e" -> <<",">> \o KwBranch \o <<":", QUOTE, "e", QUOTE>>
    [] i = "nl" -> <<NL>>
    [] i = "kw_flavor" -> KwFlavor
    [] i = "comma" -> <<",">>
    [] i = "attr_cb" -> <<",", " ">> \o KwBranch
    [] i = "attr_cbc" -> <<",", " ">> \o KwBranch \o <<":">>
    [] i = "kw_branch" -> KwBranch
    [] i = "colon" -> <<":">>
    [] i = "str" -> <<QUOTE, "a", QUOTE>>
    [] i = "quote" -> <<QUOTE>>
    [] i = "ill" -> <<"@">>
    [] i = "ident" -> <<"x">>
    [] i = "kw_group" -> KwGroup
    [] i = "hash" -> <<"#">>

RECURSIVE Flatten(_)
Flatten(m) == IF m = <<>> THEN <<>> ELSE ItemBytes(Head(m)) \o Flatten(Tail(m))

Manifests == UNION {[1..n -> Items] : n \in 0..MaxItems}

(***************************************************************************)
(* Tokens, entries and errors (parse.rs: Token, Flavor, ParseError)        *)
(***************************************************************************)
Tok(kind, text) == [kind |-> kind, text |-> text]
NoTok == Tok("none", <<>>)
TokIllegal == Tok("Illegal", <<>>)
TokHash == Tok("Hash", <<>>)
TokComma == Tok("Comma", <<>>)
TokColon == Tok("Colon", <<>>)
TokFlavor == Tok("Flavor", <<>>)
TokGroup == Tok("Group", <<>>)
TokBranch == Tok("Branch", <<>>)
TokIdent(s) == Tok("Ident", s)
TokStr(s) == Tok("Str", s)

Master == <<"m", "a", "s", "t", "e", "r">>
Flavor(repo, branch) == [repo |-> repo, branch |-> branch]

\* ParseError::Utf8 has no value here: the buffer is a &str and a literal ends
\* at an ASCII quote, so the bytes handed to String::from_utf8 are valid UTF-8.
Err(kind, got, want) == [kind |-> kind, got |-> got, want |-> want]
NoErr == Err("none", NoTok, NoTok)
ErrTerminate == Err("Terminate", NoTok, NoTok)
ErrEOF == Err("EOF", NoTok, NoTok)
ErrTypeMismatch == Err("TypeMismatch", NoTok, NoTok)
ErrUnexpected(got, want) == Err("Unexpected", got, want)

is_eof_error(e) == e.kind = "EOF"

(***************************************************************************)
(* The cursor (parse.rs: struct Parser).  it is the number of bytes the    *)
(* Enumerate<Bytes> iterator has yielded, so buffer.len() = Len(buf) - it. *)
(***************************************************************************)
Cursor(it_, offset_, byte_) == [it |-> it_, offset |-> offset_, byte |-> byte_]

new(buf) ==
  IF Len(buf) > 0 THEN Cursor(1, 0, buf[1]) ELSE Cursor(0, 0, None)

next(buf, p) ==
  IF p.it < Len(buf)
    THEN Cursor(p.it + 1, p.offset + 1, buf[p.it + 1])
    ELSE Cursor(p.it, p.offset + 1, None)

Min(S) == CHOOSE x \in S : \A y \in S : x <= y

\* skip_to_next_line putting the cursor back on the first byte
skip_to_next_line_rewinds(buf, p) ==
  IF Len(buf) > 0 THEN Cursor(1, 0, buf[1]) ELSE Cursor(0, 0, None)

skip_to_next_line(buf, p) ==
  LET m == p.offset + (Len(buf) - p.it)
      found == {i \in (p.it + 1)..Len(buf) : buf[i] = NL}
  IN  IF found = {}
        THEN Cursor(Len(buf), m, None)
        ELSE Cursor(Min(found), (Min(found) - 1) + 1, NL)

(***************************************************************************)
(* The lexer.  A lexer result is [p, tok, err]: the cursor afterwards, and *)
(* either a token (err = NoErr) or an error (tok = NoTok).                 *)
(***************************************************************************)
LexOk(p, tok) == [p |-> p, tok |-> tok, err |-> NoErr]
LexErr(p, e) == [p |-> p, tok |-> NoTok, err |-> e]

RECURSIVE IdentRun(_, _, _)
IdentRun(buf, p, acc) ==
  IF p.byte # None /\ is_ascii_alphabetic(p.byte)
    THEN IdentRun(buf, next(buf, p), Append(acc, p.byte))
    ELSE [p |-> p, s |-> acc]

\* read_ident taking a run that only begins with a keyword for the keyword
read_ident_prefix(buf, p) ==
  LET r == IdentRun(buf, p, <<>>)
  IN  LexOk(r.p, CASE Len(r.s) >= 6 /\ SubSeq(r.s, 1, 6) = KwFlavor -> TokFlavor
                   [] Len(r.s) >= 5 /\ SubSeq(r.s, 1, 5) = KwGroup -> TokGroup
                   [] Len(r.s) >= 6 /\ SubSeq(r.s, 1, 6) = KwBranch -> TokBranch
                   [] OTHER -> TokIdent(r.s))

read_ident(buf, p) ==
  LET r == IdentRun(buf, p, <<>>)
  IN  LexOk(r.p, CASE r.s = KwFlavor -> TokFlavor
                   [] r.s = KwGroup -> TokGroup
                   [] r.s = KwBranch -> TokBranch
                   [] OTHER -> TokIdent(r.s))

RECURSIVE StringRun(_, _, _)
StringRun(buf, p, acc) ==
  IF p.byte # None /\ p.byte # QUOTE
    THEN StringRun(buf, next(buf, p), Append(acc, p.byte))
    ELSE [p |-> p, s |-> acc]

read_string(buf, p) ==
  LET r == StringRun(buf, p, <<>>)
  IN  IF r.p.byte # QUOTE
        THEN LexErr(r.p, ErrTerminate)
        ELSE LexOk(next(buf, r.p), TokStr(r.s))

RECURSIVE next_token(_, _)
next_token(buf, p) ==
  IF p.byte = None THEN LexErr(p, ErrEOF)
  ELSE IF is_ascii_alphabetic(p.byte) THEN read_ident(buf, p)
  ELSE LET b == p.byte
           q == next(buf, p)
       IN  CASE b \in {" ", NL} -> next_token(buf, q)
             [] b = QUOTE -> read_string(buf, q)
             [] b = "#" -> LexOk(q, TokHash)
             [] b = "," -> LexOk(q, TokComma)
             [] b = ":" -> LexOk(q, TokColon)
             [] OTHER -> LexOk(q, TokIllegal)

(***************************************************************************)
(* The parser.  A step result is [p, vec, err]: the cursor and the entry   *)
(* list afterwards, and the error that ended the step (NoErr if none).     *)
(***************************************************************************)
Step(p, vec, e) == [p |-> p, vec |-> vec, err |-> e]

\* str_of reporting the wrong token the way parse_colon and parse_branch do
str_of_unexpected(r) ==
  IF r.err # NoErr THEN [p |-> r.p, s |-> <<>>, err |-> r.err]
  ELSE IF r.tok.kind = "Str" THEN [p |-> r.p, s |-> r.tok.text, err |-> NoErr]
  ELSE [p |-> r.p, s |-> <<>>, err |-> ErrUnexpected(r.tok, TokStr(<<>>))]

\* parse_str, its match on the token read: Result<String, ParseError>
str_of(r) ==
  IF r.err # NoErr THEN [p |-> r.p, s |-> <<>>, err |-> r.err]
  ELSE IF r.tok.kind = "Str" THEN [p |-> r.p, s |-> r.tok.text, err |-> NoErr]
  ELSE [p |-> r.p, s |-> <<>>, err |-> ErrTypeMismatch]

parse_str(buf, p) == str_of(next_token(buf, p))

\* expect with the two tokens of the error swapped
expect_swapped(r, want) ==
  IF r.err # NoErr THEN [p |-> r.p, err |-> r.err]
  ELSE IF r.tok = want THEN [p |-> r.p, err |-> NoErr]
  ELSE [p |-> r.p, err |-> ErrUnexpected(want, r.tok)]

\* parse_colon and parse_branch, their match on the token read
expect(r, want) ==
  IF r.err # NoErr THEN [p |-> r.p, err |-> r.err]
  ELSE IF r.tok = want THEN [p |-> r.p, err |-> NoErr]
  ELSE [p |-> r.p, err |-> ErrUnexpected(r.tok, want)]

parse_colon(buf, p) == expect(next_token(buf, p), TokColon)

parse_branch(buf, p) == expect(next_token(buf, p), TokBranch)

\* Vec::pop: the list without its last entry
Front(vec) == SubSeq(vec, 1, Len(vec) - 1)

\* attrs_str pushing a second entry instead of putting the popped one back
attrs_str_appends(s, f, rest) ==
  IF s.err # NoErr THEN Step(s.p, rest, s.err)
  ELSE Step(s.p, Append(Append(rest, f), [f EXCEPT !.branch = s.s]), NoErr)

\* parse_attrs from `f.branch = self.parse_str()?` on; s is what parse_str
\* returned, f the popped entry and rest the list it was popped from
attrs_str(s, f, rest) ==
  IF s.err # NoErr THEN Step(s.p, rest, s.err)
  ELSE Step(s.p, Append(rest, [f EXCEPT !.branch = s.s]), NoErr)

\* parse_attrs from `self.parse_colon()?` on; c is what parse_colon returned
attrs_colon(buf, c, f, rest) ==
  IF c.err # NoErr THEN Step(c.p, rest, c.err)
  ELSE attrs_str(parse_str(buf, c.p), f, rest)

\* parse_attrs from `vec.pop()` on; b is what parse_branch returned
attrs_pop(buf, b, vec) ==
  IF b.err # NoErr THEN Step(b.p, vec, b.err)
  ELSE IF vec = <<>> THEN Step(b.p, vec, ErrUnexpected(TokComma, TokFlavor))
  ELSE attrs_colon(buf, parse_colon(buf, b.p), vec[Len(vec)], Front(vec))

parse_attrs(buf, p, vec) == attrs_pop(buf, parse_branch(buf, p), vec)

\* push_flavor leaving the branch of the new entry empty
push_flavor_nobranch(s, vec) ==
  IF s.err # NoErr THEN Step(s.p, vec, s.err)
  ELSE Step(s.p, Append(vec, Flavor(s.s, <<>>)), NoErr)

\* parse1, arm Token::Flavor: the push, s being what parse_str returned
push_flavor(s, vec) ==
  IF s.err # NoErr THEN Step(s.p, vec, s.err)
  ELSE Step(s.p, Append(vec, Flavor(s.s, Master)), NoErr)

\* parse1, the match on the token read at the top of the loop
stmt(buf, t, vec) ==
  IF t.err # NoErr THEN Step(t.p, vec, t.err)
  ELSE CASE t.tok = TokHash -> Step(skip_to_next_line(buf, t.p), vec, NoErr)
         [] t.tok = TokFlavor -> push_flavor(parse_str(buf, t.p), vec)
         [] t.tok = TokComma -> parse_attrs(buf, t.p, vec)
         [] OTHER -> Step(t.p, vec, ErrUnexpected(t.tok, TokFlavor))

\* one iteration of the loop of parse1
parse1_iter(buf, p, vec) == stmt(buf, next_token(buf, p), vec)

\* parse1: leave the loop on the first error
RECURSIVE parse1(_, _, _)
loop(buf, r) == IF r.err # NoErr THEN r ELSE parse1(buf, r.p, r.vec)

parse1(buf, p, vec) == loop(buf, parse1_iter(buf, p, vec))

\* Result<Vec<Flavor>, ParseError>
RetOk(vec) == [kind |-> "Ok", vec |-> vec, err |-> NoErr]
RetErr(e) == [kind |-> "Err", vec |-> <<>>, err |-> e]
NoRet == [kind |-> "none", vec |-> <<>>, err |-> NoErr]

\* parse, given the step that ended parse1
parse_ret(r) == IF is_eof_error(r.err) THEN RetOk(r.vec) ELSE RetErr(r.err)

parse(buf) == parse_ret(parse1(buf, new(buf), <<>>))

(***************************************************************************)
(* The synchronizer (vim_flavor::install, vim_flavor::update) and the      *)
(* backend it drives.  A directory under the root is named by a sequence   *)
(* of bytes; a backend call is [op, src, dir, branch].                     *)
(***************************************************************************)
\* bytes kept by the directory name: alphanumeric, '-', '_' and '.'
DirSafe == Letters \cup {"-", "_", "."}

\* the directory derived from a repo reference
DirName(repo) == [i \in 1..Len(repo) |-> IF repo[i] \in DirSafe THEN repo[i] ELSE "_"]

Slashes(repo) == Cardinality({i \in 1..Len(repo) : repo[i] = "/"})

\* the clone URL a repo reference completes to
CompleteUrl(repo) ==
  [host |-> CASE Slashes(repo) = 0 -> "registry"
              [] Slashes(repo) = 1 -> "generic"
              [] OTHER -> "verbatim",
   path |-> repo]

NoUrl == [host |-> "none", path |-> <<>>]

\* NeedsBackend without the existence check
NeedsBackendAlways(c, d, dirs) == c \in {"install", "update"}

\* does the synchronizer call the backend for an entry whose directory is d
NeedsBackend(c, d, dirs) ==
  \/ c = "install" /\ d \notin dirs
  \/ c = "update" /\ d \in dirs

\* the call the synchronizer issues for entry f
BackendCall(c, f) ==
  IF c = "install"
    THEN [op |-> "clone", src |-> CompleteUrl(f.repo), dir |-> DirName(f.repo),
          branch |-> f.branch]
    ELSE [op |-> "pull", src |-> NoUrl, dir |-> DirName(f.repo), branch |-> f.branch]

\* the directories after a backend call that succeeded
AfterSuccess(c, d, dirs) == IF c = "install" THEN dirs \cup {d} ELSE dirs

\* the directories a failed backend call may leave behind
AfterFailure(c, d, dirs) == IF c = "install" THEN {dirs, dirs \cup {d}} ELSE {dirs}

(***************************************************************************)
(* The driver (main.rs: with_flavor_file)                                  *)
(***************************************************************************)
\* CallsFun with the error of parse dropped instead of returned
CallsFunAlways(r) == r.kind \in {"Ok", "Err"}

\* does with_flavor_file go on to call the synchronizer
CallsFun(r) == r.kind = "Ok"

(***************************************************************************)
(* State                                                                   *)
(***************************************************************************)
VARIABLES
  items,     \* the manifest, as the fragments it is put together from
  parser,    \* the Parser: [it, offset, byte]
  vec,       \* parse: the entry list being built
  ret,       \* what parse returned (NoRet while it runs or was not called)
  pc,        \* "parse1": at the top of the loop of parse1; "done": parse
             \* returned; "idle", "sync", "exit": the stages of a run
  cmd,       \* the command of the run: "install", "update" ("none": no run)
  flavors,   \* the entries the synchronizer was called with
  idx,       \* the entry the synchronizer is at
  fs,        \* the directories under the root
  calls,     \* the backend calls of the run, in the order issued
  out        \* the outcome of the run ("none" while it runs)

parseVars == <<items, parser, vec>>
runVars == <<cmd, flavors, idx, fs, calls, out>>
vars == <<items, parser, vec, ret, pc, cmd, flavors, idx, fs, calls, out>>

buffer == Flatten(items)

NoRun ==
  /\ cmd = "none"
  /\ flavors = <<>>
  /\ idx = 0
  /\ calls = <<>>
  /\ out = "none"

(***************************************************************************)
(* Parsing one manifest, one iteration of the loop of parse1 at a time     *)
(***************************************************************************)
Init ==
  /\ items \in Manifests
  /\ parser = new(Flatten(items))
  /\ vec = <<>>
  /\ ret = NoRet
  /\ pc = "parse1"
  /\ fs = {}
  /\ NoRun

\* the kind of token at statement position ("none" when the lexer fails)
StmtKind == next_token(buffer, parser).tok.kind

\* the state after a loop iteration that ended as r, with the return of parse
\* when it left the loop
Commit(r) ==
  /\ parser' = r.p
  /\ vec' = r.vec
  /\ pc' = IF r.err = NoErr THEN "parse1" ELSE "done"
  /\ ret' = IF r.err = NoErr THEN NoRet ELSE parse_ret(r)
  /\ UNCHANGED <<items, runVars>>

Iterate == Commit(parse1_iter(buffer, parser, vec))

\* parse1: Token::Hash => self.skip_to_next_line()
StmtComment ==
  /\ pc = "parse1"
  /\ StmtKind = "Hash"
  /\ Iterate

\* parse1: Token::Flavor => vec.push(Flavor { repo: self.parse_str()?, .. })
StmtFlavor ==
  /\ pc = "parse1"
  /\ StmtKind = "Flavor"
  /\ Iterate

\* parse1: Token::Comma => self.parse_attrs(vec)?
StmtAttrs ==
  /\ pc = "parse1"
  /\ StmtKind = "Comma"
  /\ Iterate

\* parse1: t => return Err(ParseError::Unexpected(t, Token::Flavor))
StmtUnexpected ==
  /\ pc = "parse1"
  /\ StmtKind \in {"Illegal", "Ident", "Str", "Colon", "Group", "Branch"}
  /\ Iterate

\* parse1: self.next_token()? fails (end of input, unterminated literal)
StmtLexError ==
  /\ pc = "parse1"
  /\ StmtKind = "none"
  /\ Iterate

Next ==
  \/ StmtComment
  \/ StmtFlavor
  \/ StmtAttrs
  \/ StmtUnexpected
  \/ StmtLexError

Spec == Init /\ [][Next]_vars

(***************************************************************************)
(* Calls on one Parser, in any order.  pc names the call that returned     *)
(* last and ret holds what it returned.                                    *)
(***************************************************************************)
\* longest input of a call sequence, counted in fragments
MaxLexItems == 2

Inputs == UNION {[1..n -> Items] : n \in 0..MaxLexItems}

LexInit ==
  /\ items \in Inputs
  /\ parser = new(Flatten(items))
  /\ vec = <<>>
  /\ ret = NoRet
  /\ pc = "new"
  /\ fs = {}
  /\ NoRun

\* the calls a sequence is made of, Parser::new first
Calls == {"new", "next", "next_token", "skip_to_next_line", "parse"}

\* Result<Token, ParseError>
TokRet(r) ==
  [kind |-> IF r.err = NoErr THEN "Ok" ELSE "Err", tok |-> r.tok, err |-> r.err]

\* the state after a call that left the cursor at p and returned r
Returns(call, p, r) ==
  /\ parser' = p
  /\ ret' = r
  /\ pc' = call
  /\ UNCHANGED <<items, vec, runVars>>

\* self.next(): every call site has matched a current byte before
CallNext ==
  /\ pc \in Calls
  /\ parser.byte # None
  /\ Returns("next", next(buffer, parser), NoRet)

CallNextToken ==
  /\ pc \in Calls
  /\ Returns("next_token", next_token(buffer, parser).p,
             TokRet(next_token(buffer, parser)))

CallSkipToNextLine ==
  /\ pc \in Calls
  /\ Returns("skip_to_next_line", skip_to_next_line(buffer, parser), NoRet)

CallParse ==
  /\ pc \in Calls
  /\ Returns("parse", parse1(buffer, parser, <<>>).p,
             parse_ret(parse1(buffer, parser, <<>>)))

LexNext ==
  \/ CallNext
  \/ CallNextToken
  \/ CallSkipToNextLine
  \/ CallParse

LexSpec == LexInit /\ [][LexNext]_vars

(***************************************************************************)
(* Runs of `vim-flavor install` and `vim-flavor update` over one root      *)
(***************************************************************************)
\* longest VimFlavor file of a run, counted in fragments
MaxFileItems == 2

Files == UNION {[1..n -> Items] : n \in 0..MaxFileItems}

RunInit ==
  /\ items = <<>>
  /\ parser = new(<<>>)
  /\ vec = <<>>
  /\ ret = NoRet
  /\ pc = "idle"
  /\ fs = {}
  /\ NoRun

\* with_flavor_file left before the synchronizer was called
Fail(c, r, o) ==
  /\ cmd' = c
  /\ ret' = r
  /\ out' = o
  /\ pc' = "exit"
  /\ UNCHANGED <<parseVars, flavors, idx, fs, calls>>

\* with_flavor_file: fun(&Parser::new(&buffer).parse()?, &root), r being what
\* parse returned
CallFun(c, r) ==
  IF CallsFun(r)
    THEN /\ cmd' = c
         /\ ret' = r
         /\ flavors' = r.vec
         /\ idx' = 1
         /\ pc' = "sync"
         /\ UNCHANGED <<parseVars, fs, calls, out>>
    ELSE Fail(c, r, "ParseError")

\* with_flavor_file, up to the call of the synchronizer
WithFlavorFile ==
  /\ pc = "idle"
  /\ \E c \in {"install", "update"}, extraArg, readable, home \in BOOLEAN :
       IF extraArg THEN Fail(c, NoRet, "TooManyArguments")
       ELSE IF ~readable THEN Fail(c, NoRet, "IO")
       ELSE IF ~home THEN Fail(c, NoRet, "GetHome")
       ELSE \E m \in Files : CallFun(c, parse(Flatten(m)))

\* the entry is skipped
SyncSkip ==
  /\ pc = "sync"
  /\ idx <= Len(flavors)
  /\ ~NeedsBackend(cmd, DirName(flavors[idx].repo), fs)
  /\ idx' = idx + 1
  /\ UNCHANGED <<parseVars, ret, pc, cmd, flavors, fs, calls, out>>

\* the backend is called and exits with status 0
SyncBackendOk ==
  /\ pc = "sync"
  /\ idx <= Len(flavors)
  /\ NeedsBackend(cmd, DirName(flavors[idx].repo), fs)
  /\ calls' = Append(calls, BackendCall(cmd, flavors[idx]))
  /\ fs' = AfterSuccess(cmd, DirName(flavors[idx].repo), fs)
  /\ idx' = idx + 1
  /\ UNCHANGED <<parseVars, ret, pc, cmd, flavors, out>>

\* the backend is called and cannot be started
SyncBackendSpawnFail ==
  /\ pc = "sync"
  /\ idx <= Len(flavors)
  /\ NeedsBackend(cmd, DirName(flavors[idx].repo), fs)
  /\ calls' = Append(calls, BackendCall(cmd, flavors[idx]))
  /\ out' = "SyncError"
  /\ pc' = "exit"
  /\ UNCHANGED <<parseVars, ret, cmd, flavors, idx, fs>>

\* SyncBackendExitFail going on with the next entry instead of returning
SyncBackendExitFailGoesOn ==
  /\ pc = "sync"
  /\ idx <= Len(flavors)
  /\ NeedsBackend(cmd, DirName(flavors[idx].repo), fs)
  /\ calls' = Append(calls, BackendCall(cmd, flavors[idx]))
  /\ fs' \in AfterFailure(cmd, DirName(flavors[idx].repo), fs)
  /\ out' = "SyncError"
  /\ idx' = idx + 1
  /\ UNCHANGED <<parseVars, ret, pc, cmd, flavors>>

\* the backend is called and exits with a nonzero status
SyncBackendExitFail ==
  /\ pc = "sync"
  /\ idx <= Len(flavors)
  /\ NeedsBackend(cmd, DirName(flavors[idx].repo), fs)
  /\ calls' = Append(calls, BackendCall(cmd, flavors[idx]))
  /\ fs' \in AfterFailure(cmd, DirName(flavors[idx].repo), fs)
  /\ out' = "SyncError"
  /\ pc' = "exit"
  /\ UNCHANGED <<parseVars, ret, cmd, flavors, idx>>

\* every entry was processed
SyncDone ==
  /\ pc = "sync"
  /\ idx > Len(flavors)
  /\ out' = "Ok"
  /\ pc' = "exit"
  /\ UNCHANGED <<parseVars, ret, cmd, flavors, idx, fs, calls>>

\* the process exits; the directories under the root are what is left of the run
Exit ==
  /\ pc = "exit"
  /\ pc' = "idle"
  /\ ret' = NoRet
  /\ cmd' = "none"
  /\ flavors' = <<>>
  /\ idx' = 0
  /\ calls' = <<>>
  /\ out' = "none"
  /\ UNCHANGED <<parseVars, fs>>

RunNext ==
  \/ WithFlavorFile
  \/ SyncSkip
  \/ SyncBackendOk
  \/ SyncBackendSpawnFail
  \/ SyncBackendExitFail
  \/ SyncDone
  \/ Exit

RunSpec == RunInit /\ [][RunNext]_vars

(***************************************************************************)
(* Properties of the parser, checked under Spec                            *)
(***************************************************************************)
\* fragments that are a whole comment line, a whole flavor statement, a whole
\* attribute clause or a blank line
CommentItems == {"cmt_empty", "cmt_text"}
WholeItems == CommentItems \cup {"fl_a", "fl_ab", "attr_d", "attr_e", "nl"}

AllWhole(m) == \A i \in 1..Len(m) : m[i] \in WholeItems

\* the repo literals of the flavor statements of a manifest, in textual order
RECURSIVE StatedRepos(_)
StatedRepos(m) ==
  IF m = <<>> THEN <<>>
  ELSE (CASE Head(m) = "fl_a" -> <<<<"a">>>>
          [] Head(m) = "fl_ab" -> <<<<"a", "/", "b">>>>
          [] OTHER -> <<>>) \o StatedRepos(Tail(m))

Repos(v) == [i \in 1..Len(v) |-> v[i].repo]

RemoveAt(m, k) == SubSeq(m, 1, k - 1) \o SubSeq(m, k + 1, Len(m))

\* the tokens from statement position on
Tok1 == next_token(buffer, parser)
Tok2 == next_token(buffer, Tok1.p)
Tok3 == next_token(buffer, Tok2.p)
Tok4 == next_token(buffer, Tok3.p)

Returned == pc = "done"

\* C1: when parse returns Ok for a manifest made of whole comment lines,
\* flavor statements, attribute clauses and blank lines, the repos of the
\* returned entries are the repo literals of the flavor statements of the
\* manifest, one entry per statement, in textual order.
C1_OneEntryPerStatement ==
  (Returned /\ ret.kind = "Ok" /\ AllWhole(items))
    => Repos(ret.vec) = StatedRepos(items)

\* C2: an iteration of the statement loop that runs into the end of the input
\* makes parse return Ok with the entries accumulated so far when the input
\* ended at statement position, and an error when it ended after `flavor` or
\* inside an attribute clause.
C2_EofOnlyAtBoundary ==
  [][(pc = "parse1" /\ is_eof_error(parse1_iter(buffer, parser, vec).err))
       => IF is_eof_error(Tok1.err)
            THEN ret' = RetOk(vec)
            ELSE ret'.kind = "Err"]_vars

\* C3: a comment line at a place where a statement may start is ignored: parse
\* returns for the manifest what it returns for the manifest without that line.
C3_CommentIgnored ==
  Returned =>
    \A k \in 1..Len(items) :
      (items[k] \in CommentItems /\ AllWhole(SubSeq(items, 1, k - 1)))
        => LET without == parse(Flatten(RemoveAt(items, k)))
           IN  ret.kind = without.kind /\ ret.vec = without.vec

\* C4: an iteration that reads `, branch: '<b>'` at statement position while
\* the list has entries goes on with the branch of the last entry set to <b>
\* and with the list otherwise as it was (its length, every repo and the
\* branch of every earlier entry).
C4_AttrOverwritesLast ==
  [][(/\ pc = "parse1"
      /\ vec # <<>>
      /\ Tok1.tok = TokComma
      /\ Tok2.tok = TokBranch
      /\ Tok3.tok = TokColon
      /\ Tok4.tok.kind = "Str")
       => /\ pc' = "parse1"
          /\ vec' = [vec EXCEPT ![Len(vec)].branch = Tok4.tok.text]]_vars

\* C4, its case: the clause of the second statement changed the second entry
\* and left the first one alone.
C4_Witness ==
  /\ Returned
  /\ items = <<"fl_a", "fl_ab", "attr_e">>
  /\ ret = RetOk(<<Flavor(<<"a">>, Master), Flavor(<<"a", "/", "b">>, <<"e">>)>>)

\* C5: `flavor '<repo>'` appends the entry (<repo>, "master"); an iteration
\* that does not read a comma at statement position leaves every entry as it
\* is, one that does leaves all but the last as they are; and the list parse
\* returns is the list so built.
C5_DefaultBranchMaster ==
  [][pc = "parse1" =>
       /\ (Tok1.tok = TokFlavor /\ Tok2.tok.kind = "Str")
            => vec' = Append(vec, Flavor(Tok2.tok.text, Master))
       /\ Tok1.tok # TokComma
            => \A i \in 1..Len(vec) : i <= Len(vec') /\ vec'[i] = vec[i]
       /\ \A i \in 1..Len(vec') : i < Len(vec) => vec'[i] = vec[i]
       /\ ret'.kind = "Ok" => ret'.vec = vec']_vars

\* C5, its case: two statements without attribute clause, a comment between.
C5_Witness ==
  /\ Returned
  /\ items = <<"fl_a", "cmt_text", "fl_ab">>
  /\ ret = RetOk(<<Flavor(<<"a">>, Master), Flavor(<<"a", "/", "b">>, Master)>>)

\* C6: an iteration that reads a comma at statement position while the list is
\* empty makes parse return the error unexpected(got Comma, want Flavor),
\* whatever follows the comma.
C6_CommaWithoutEntry ==
  [][(pc = "parse1" /\ Tok1.tok = TokComma /\ vec = <<>>)
       => ret' = RetErr(ErrUnexpected(TokComma, TokFlavor))]_vars

\* C7: an iteration that reads `flavor` and then a token that is not a string
\* literal makes parse return the TypeMismatch error, with no entry appended.
C7_FlavorNeedsString ==
  [][(/\ pc = "parse1"
      /\ Tok1.tok = TokFlavor
      /\ Tok2.err = NoErr
      /\ Tok2.tok.kind # "Str")
       => /\ pc' = "done"
          /\ ret' = RetErr(ErrTypeMismatch)
          /\ vec' = vec]_vars

\* C7, its case: `flavor` followed by the keyword `flavor`.
C7_Witness ==
  /\ Returned
  /\ items = <<"kw_flavor", "nl", "kw_flavor">>
  /\ ret = RetErr(ErrTypeMismatch)

\* the deviations: a token that starts no statement; after `,` a token other
\* than `branch`; after `branch` a token other than `:`; after `:` a token
\* other than a string literal
DevStmt == Tok1.err = NoErr /\ Tok1.tok.kind \notin {"Hash", "Flavor", "Comma"}
DevAfterComma == Tok1.tok = TokComma /\ Tok2.err = NoErr /\ Tok2.tok # TokBranch
DevAfterBranch ==
  Tok1.tok = TokComma /\ Tok2.tok = TokBranch /\ Tok3.err = NoErr /\ Tok3.tok # TokColon
DevAfterColon ==
  /\ Tok1.tok = TokComma
  /\ Tok2.tok = TokBranch
  /\ Tok3.tok = TokColon
  /\ Tok4.err = NoErr
  /\ Tok4.tok.kind # "Str"

\* C8 as stated: every deviation makes parse return an unexpected-token error
\* that carries the token found and the token required.
C8_DeviationUnexpected ==
  [][(pc = "parse1" /\ (DevStmt \/ DevAfterComma \/ DevAfterBranch \/ DevAfterColon))
       => /\ ret'.kind = "Err"
          /\ ret'.err.kind = "Unexpected"
          /\ ret'.err.got # NoTok
          /\ ret'.err.want # NoTok]_vars

\* C8 as amended: a token that starts no statement fails with unexpected(got,
\* want Flavor); after `,` a token other than `branch` fails with
\* unexpected(got, want Branch); once `, branch` is read with the list empty
\* parse fails with unexpected(got Comma, want Flavor); otherwise a token other
\* than `:` after `branch` fails with unexpected(got, want Colon) and a token
\* other than a string literal after `:` fails with TypeMismatch, which carries
\* no token.
C8_DeviationErrors ==
  [][pc = "parse1" =>
       /\ DevStmt => ret' = RetErr(ErrUnexpected(Tok1.tok, TokFlavor))
       /\ DevAfterComma => ret' = RetErr(ErrUnexpected(Tok2.tok, TokBranch))
       /\ DevAfterBranch
            => ret' = RetErr(IF vec = <<>> THEN ErrUnexpected(TokComma, TokFlavor)
                                           ELSE ErrUnexpected(Tok3.tok, TokColon))
       /\ DevAfterColon
            => ret' = RetErr(IF vec = <<>> THEN ErrUnexpected(TokComma, TokFlavor)
                                           ELSE ErrTypeMismatch)]_vars

\* C8, its case: `flavor 'a', branch:` followed by the keyword `flavor`.
C8_Witness ==
  /\ Returned
  /\ items = <<"fl_a", "attr_cbc", "kw_flavor">>
  /\ ret = RetErr(ErrTypeMismatch)

(***************************************************************************)
(* Properties of a run, checked under RunSpec                              *)
(***************************************************************************)
\* C9: in a run whose parse returned an error the synchronizer is not entered
\* and no backend call is issued, and the steps of that run leave the
\* directories under the root as they are.
C9_ParseErrorNoSync ==
  /\ [](ret.kind = "Err"
          => pc = "exit" /\ out = "ParseError" /\ idx = 0 /\ calls = <<>>)
  /\ [][(ret.kind = "Err" \/ ret'.kind = "Err") => fs' = fs]_vars

\* C9, its case: a run over a root that holds a directory ended on a parse
\* error.
C9_Witness ==
  /\ pc = "exit"
  /\ ret.kind = "Err"
  /\ out = "ParseError"
  /\ fs # {}

\* C10: the synchronizer takes the entries one by one in the order of the list;
\* at an entry it issues one backend call, for the directory and branch of that
\* entry, iff the run installs and the directory is missing or the run updates
\* and the directory exists; otherwise it goes to the next entry with nothing
\* called, changed or failed.  So a successful install leaves the directory of
\* every entry in place (a second install finds them all), and an update over
\* entries none of which is installed ends in success without a call.
C10_BackendIffNeeded ==
  /\ [][(pc = "sync" /\ idx <= Len(flavors)) =>
          IF \/ cmd = "install" /\ DirName(flavors[idx].repo) \notin fs
             \/ cmd = "update" /\ DirName(flavors[idx].repo) \in fs
            THEN /\ Len(calls') = Len(calls) + 1
                 /\ SubSeq(calls', 1, Len(calls)) = calls
                 /\ calls'[Len(calls')].dir = DirName(flavors[idx].repo)
                 /\ calls'[Len(calls')].branch = flavors[idx].branch
                 /\ pc' = "sync" => idx' = idx + 1
            ELSE /\ calls' = calls
                 /\ fs' = fs
                 /\ out' = "none"
                 /\ pc' = "sync"
                 /\ idx' = idx + 1]_vars
  /\ []((pc = "exit" /\ cmd = "install" /\ out = "Ok")
          => \A i \in 1..Len(flavors) : DirName(flavors[i].repo) \in fs)
  /\ []((/\ pc = "exit"
         /\ cmd = "update"
         /\ ret.kind = "Ok"
         /\ \A i \in 1..Len(flavors) : DirName(flavors[i].repo) \notin fs)
          => out = "Ok" /\ calls = <<>>)

\* C10, its case: an install over two entries that are both installed ended in
\* success without a backend call.
C10_Witness ==
  /\ pc = "exit"
  /\ cmd = "install"
  /\ out = "Ok"
  /\ Len(flavors) = 2
  /\ DirName(flavors[1].repo) # DirName(flavors[2].repo)
  /\ calls = <<>>

\* C11: a run that recorded a SyncError has returned: it is at the entry whose
\* backend call failed, that call is the last one issued, and the only step
\* left is the exit, which issues no call and leaves the directories as they
\* are; while the synchronizer goes on no failure has happened.  The failing
\* step removes no directory, and in an install the directory of every entry
\* before the failing one is in place.
C11_FailFast ==
  /\ [](out = "SyncError"
          => /\ pc = "exit"
             /\ idx \in 1..Len(flavors)
             /\ calls # <<>>
             /\ calls[Len(calls)].dir = DirName(flavors[idx].repo)
             /\ calls[Len(calls)].branch = flavors[idx].branch
             /\ cmd = "install"
                  => \A j \in 1..(idx - 1) : DirName(flavors[j].repo) \in fs)
  /\ [](pc = "sync" => out = "none")
  /\ [][out = "SyncError" => pc' = "idle" /\ fs' = fs /\ calls' = <<>>]_vars
  /\ [][out' = "SyncError" => fs \subseteq fs']_vars

\* C11, its case: the call for the first of two entries failed and the second
\* entry, whose directory is missing, got no call.
C11_Witness ==
  /\ out = "SyncError"
  /\ cmd = "install"
  /\ Len(flavors) = 2
  /\ idx = 1
  /\ Len(calls) = 1
  /\ DirName(flavors[2].repo) \notin fs

\* C12: after any sequence of calls the offset is the index of the current
\* byte, or the input length when there is no current byte, and it never
\* exceeds the input length.
C12_OffsetIsConsumed ==
  /\ parser.offset <= Len(buffer)
  /\ parser.offset = IF parser.byte = None THEN Len(buffer) ELSE parser.it - 1

\* a cursor whose current byte is the k-th byte of buf, at end of input when
\* there is no such byte
At(buf, k) ==
  IF k <= Len(buf) THEN Cursor(k, k - 1, buf[k]) ELSE Cursor(Len(buf), Len(buf), None)

\* the positions of the newlines at or after the current byte
NewlinesAhead ==
  IF parser.byte = None THEN {}
  ELSE {i \in parser.it..Len(buffer) : buffer[i] = NL}

\* C13: skip_to_next_line moves the cursor to just past the next newline at
\* or after the current byte, so that the next token read is the one read
\* from the first byte of the following line; when no newline remains it
\* moves to the end of input (offset = input length, no current byte), and
\* called at the end of input it changes nothing.
C13_SkipToNextLine ==
  [][pc' = "skip_to_next_line"
       => IF NewlinesAhead = {}
            THEN /\ parser'.offset = Len(buffer)
                 /\ parser'.byte = None
                 /\ parser.byte = None => parser' = parser
            ELSE /\ parser'.offset = Min(NewlinesAhead)
                 /\ TokRet(next_token(buffer, parser'))
                      = TokRet(next_token(buffer, At(buffer, Min(NewlinesAhead) + 1)))
                 /\ next_token(buffer, parser').p.it
                      = next_token(buffer, At(buffer, Min(NewlinesAhead) + 1)).p.it]_vars

\* the positions from the current byte on
Ahead == IF parser.byte = None THEN {} ELSE parser.it..Len(buffer)

\* the first byte ahead that is neither a space nor a newline (0 if none)
TokenStart ==
  IF \A i \in Ahead : buffer[i] \in {" ", NL} THEN 0
  ELSE Min({i \in Ahead : buffer[i] \notin {" ", NL}})

\* the last byte of the maximal run of letters that begins at s
RunEnd(s) ==
  Min({e \in s..Len(buffer) : e = Len(buffer) \/ buffer[e + 1] \notin Letters})

\* the token a run of letters stands for
Word(run) ==
  CASE run = <<"f", "l", "a", "v", "o", "r">> -> Tok("Flavor", <<>>)
    [] run = <<"g", "r", "o", "u", "p">> -> Tok("Group", <<>>)
    [] run = <<"b", "r", "a", "n", "c", "h">> -> Tok("Branch", <<>>)
    [] OTHER -> Tok("Ident", run)

\* the quotes after the one at s
ClosingQuotes(s) == {q \in (s + 1)..Len(buffer) : buffer[q] = QUOTE}

\* what the next token read has to return
Classified ==
  LET s == TokenStart
  IN  CASE s = 0 -> [kind |-> "Err", tok |-> NoTok, err |-> ErrEOF]
        [] s # 0 /\ buffer[s] \in Letters ->
             [kind |-> "Ok", tok |-> Word(SubSeq(buffer, s, RunEnd(s))), err |-> NoErr]
        [] s # 0 /\ buffer[s] = "#" -> [kind |-> "Ok", tok |-> Tok("Hash", <<>>), err |-> NoErr]
        [] s # 0 /\ buffer[s] = "," -> [kind |-> "Ok", tok |-> Tok("Comma", <<>>), err |-> NoErr]
        [] s # 0 /\ buffer[s] = ":" -> [kind |-> "Ok", tok |-> Tok("Colon", <<>>), err |-> NoErr]
        [] s # 0 /\ buffer[s] = QUOTE /\ ClosingQuotes(s) = {} ->
             [kind |-> "Err", tok |-> NoTok, err |-> ErrTerminate]
        [] s # 0 /\ buffer[s] = QUOTE /\ ClosingQuotes(s) # {} ->
             [kind |-> "Ok",
              tok |-> Tok("Str", SubSeq(buffer, s + 1, Min(ClosingQuotes(s)) - 1)),
              err |-> NoErr]
        [] OTHER -> [kind |-> "Ok", tok |-> Tok("Illegal", <<>>), err |-> NoErr]

\* C14: next_token returns the token the bytes ahead spell: spaces and
\* newlines are skipped, a maximal run of letters is Flavor, Group or Branch
\* when it is exactly that keyword and Ident(run) otherwise, '#', ',' and ':'
\* are Hash, Comma and Colon, a quote gives Str of the raw bytes up to the
\* next quote, any other byte is Illegal; it fails only with EOF (nothing but
\* whitespace ahead) or Terminate (no closing quote).
C14_NextTokenClassifies ==
  [][pc' = "next_token"
       => /\ ret' = Classified
          /\ ret'.kind = "Err" => ret'.err \in {ErrEOF, ErrTerminate}]_vars

\* C14, its case: next_token returned a string literal that holds a space
C14_Witness ==
  /\ pc = "next_token"
  /\ ret.kind = "Ok"
  /\ ret.tok.kind = "Str"
  /\ \E i \in 1..Len(ret.tok.text) : ret.tok.text[i] = " "

\* the bytes cursor p has not gone past: the current byte and those the
\* iterator has not yielded
Remaining(p) == (Len(buffer) - p.it) + (IF p.byte = None THEN 0 ELSE 1)

\* r ends an iteration that consumed a byte of what was left at p without
\* going back, or that left the loop
Progress(p, r) ==
  \/ r.err # NoErr
  \/ /\ Remaining(r.p) < Remaining(p)
     /\ r.p.it >= p.it

\* the loop of parse1, entered at p, is left within n iterations
RECURSIVE ReturnsWithin(_, _, _)
LeftWithin(r, n) == r.err # NoErr \/ ReturnsWithin(r.p, r.vec, n - 1)

ReturnsWithin(p, v, n) == n > 0 /\ LeftWithin(parse1_iter(buffer, p, v), n)

\* C15: every iteration of the statement loop consumes at least one byte and
\* never moves the cursor back, or ends parse; so does every token read and
\* every whitespace-skipping recursion of next_token; and from every state of
\* the loop parse returns within one iteration per remaining byte, plus one.
C15_ParseTerminates ==
  pc = "parse1"
    => /\ Progress(parser, parse1_iter(buffer, parser, vec))
       /\ Progress(parser, next_token(buffer, parser))
       /\ parser.byte \in {" ", NL}
            => /\ Remaining(next(buffer, parser)) < Remaining(parser)
               /\ next_token(buffer, parser) = next_token(buffer, next(buffer, parser))
       /\ ReturnsWithin(parser, vec, Remaining(parser) + 1)

\* C15, its case: the loop is at its second or a later statement, with
\* whitespace to skip before the next token
C15_Witness ==
  /\ pc = "parse1"
  /\ vec # <<>>
  /\ parser.byte = NL
  /\ next_token(buffer, parser).err = NoErr

====
